---- MODULE Spec2Model ----
(***************************************************************************)
(* Model of src/src/models/deep_conv.py: the DCGAN-style Generator and     *)
(* Discriminator of the GAN repository.  Tensors are modelled by their     *)
(* shape and by the (squared) L2 norm of their rows; modules by their      *)
(* sizes.  Construction and forward are the operations.  The autocast      *)
(* scope of forward (mixed_precision, eval) changes neither shapes nor     *)
(* control flow and is left out.                                           *)
(***************************************************************************)
EXTENDS Integers, Sequences, FiniteSets, TLC

VARIABLES
    d_args,     \* arguments of the last Discriminator(...) call, or NoneV
    disc,       \* the constructed Discriminator (self.*), NoneV, or an Error
    d_in,       \* inputs of the last Discriminator.forward call, or NoneV
    d_out,      \* what that call returned (the bundle) or the Error it raised
    d_calls,    \* the conditioning-head calls that call made, in program order
    g_args,     \* arguments of the last Generator(...) call, or NoneV
    gen,        \* the constructed Generator, NoneV, or an Error
    g_in,       \* inputs of the last Generator.forward call, or NoneV
    g_out       \* the image tensor it returned, or the Error it raised

vars == <<d_args, disc, d_in, d_out, d_calls, g_args, gen, g_in, g_out>>
d_vars == <<d_args, disc, d_in, d_out, d_calls>>
g_vars == <<g_args, gen, g_in, g_out>>

----------------------------------------------------------------------------
(* Bounds of the model *)
MaxBatch == 2
MaxClasses == 2

(* Values the inputs are drawn from *)
DCondMtds == {"W/O", "AC", "PD", "2C", "D2DCE", "MD", "MH", "XX"}
AuxClsTypes == {"None", "TAC", "ADC"}
GCondMtds == {"W/O", "cBN", "XX"}
ImgSizes == {32, 64}
EmbedDims == {128}
ZDims == {80}
WeightNorms == {1, 4}
HNorms == {1, 4}
AttnLocsAll == SUBSET (0 .. 4)
AttnLocsFew == {{2}, {1, 3}}

----------------------------------------------------------------------------
(* Values *)
NoneV == [kind |-> "None"]
Err(t) == [kind |-> "Error", type |-> t]
IsErr(v) == v.kind = "Error"
IsNone(v) == v.kind = "None"

\* A row norm the modelled inputs do not determine, and its normalised form
AnyNrm == 0 - 1
AnyUnit == 0 - 2

Tensor(shape, nrm) == [kind |-> "Tensor", shape |-> shape, nrm |-> nrm]

\* v unless it is an error, and then the error: an exception ends the call
OnOk(v, F(_)) == IF IsErr(v) THEN v ELSE F(v)

Last(s) == s[Len(s)]
Front(s) == SubSeq(s, 1, Len(s) - 1)

----------------------------------------------------------------------------
(* Primitives of the tensor engine and of the module factory *)

\* MODULES.d_linear / MODULES.g_linear (in_features, out_features, bias)
Linear(in_features, out_features, bias, wnrm) ==
    [kind |-> "Linear", in_features |-> in_features,
     out_features |-> out_features, bias |-> bias, wnrm |-> wnrm]

\* MODULES.d_embedding (num_embeddings, embedding_dim)
Embedding(num_embeddings, embedding_dim) ==
    [kind |-> "Embedding", num_embeddings |-> num_embeddings,
     embedding_dim |-> embedding_dim]

\* MODULES.*_conv2d / g_deconv2d
Conv2d(in_channels, out_channels, kernel_size, stride, padding) ==
    [kind |-> "Conv2d", in_channels |-> in_channels, out_channels |-> out_channels,
     kernel_size |-> kernel_size, stride |-> stride, padding |-> padding]

Deconv2d(in_channels, out_channels, kernel_size, stride, padding) ==
    [kind |-> "Deconv2d", in_channels |-> in_channels, out_channels |-> out_channels,
     kernel_size |-> kernel_size, stride |-> stride, padding |-> padding]

\* module(x) for a linear layer: the last axis must be in_features
ApplyLinear(m, t) ==
    IF Len(t.shape) = 0 \/ Last(t.shape) # m.in_features
    THEN Err("RuntimeError")
    ELSE Tensor(Front(t.shape) \o <<m.out_features>>, AnyNrm)

\* module(label) for an embedding: every index must be a row of the table
ApplyEmbedding(m, label) ==
    IF \E i \in 1 .. Len(label) : label[i] \notin 0 .. (m.num_embeddings - 1)
    THEN Err("IndexError")
    ELSE Tensor(<<Len(label), m.embedding_dim>>, AnyNrm)

ConvOut(n, m) == ((n + 2 * m.padding - m.kernel_size) \div m.stride) + 1
DeconvOut(n, m) == (n - 1) * m.stride - 2 * m.padding + m.kernel_size

\* module(x) for a 2D convolution / transposed convolution on (B, C, H, W)
ApplyConv(m, t) ==
    IF Len(t.shape) # 4 \/ t.shape[2] # m.in_channels THEN Err("RuntimeError")
    ELSE IF m.kind = "Conv2d"
    THEN IF ConvOut(t.shape[3], m) < 1 \/ ConvOut(t.shape[4], m) < 1
         THEN Err("RuntimeError")
         ELSE Tensor(<<t.shape[1], m.out_channels,
                       ConvOut(t.shape[3], m), ConvOut(t.shape[4], m)>>, AnyNrm)
    ELSE Tensor(<<t.shape[1], m.out_channels,
                  DeconvOut(t.shape[3], m), DeconvOut(t.shape[4], m)>>, AnyNrm)

\* torch.squeeze(t): drops every axis of size 1
Squeeze(t) == Tensor(SelectSeq(t.shape, LAMBDA d : d # 1), t.nrm)

\* F.normalize(t, dim=1): v / max(|v|, eps), on the row norm
NormalizeNrm(n) == IF n = 0 THEN 0 ELSE IF n \in {AnyNrm, AnyUnit} THEN AnyUnit ELSE 1
Normalize(t) == Tensor(t.shape, NormalizeNrm(t.nrm))

\* broadcasting of two operands (a + b, torch.mul(a, b)), aligned at the last axis
Max(a, b) == IF a >= b THEN a ELSE b
PadTo(s, n) == [i \in 1 .. n |-> IF i <= n - Len(s) THEN 1 ELSE s[i - (n - Len(s))]]
Broadcast(a, b) ==
    LET n == Max(Len(a.shape), Len(b.shape))
        pa == PadTo(a.shape, n)
        pb == PadTo(b.shape, n)
    IN  IF \E i \in 1 .. n : pa[i] # pb[i] /\ pa[i] # 1 /\ pb[i] # 1
        THEN Err("RuntimeError")
        ELSE Tensor([i \in 1 .. n |-> Max(pa[i], pb[i])], AnyNrm)

\* torch.sum(t, 1)
SumDim1(t) ==
    IF Len(t.shape) < 2 THEN Err("IndexError")
    ELSE Tensor(<<t.shape[1]>> \o SubSeq(t.shape, 3, Len(t.shape)), AnyNrm)

\* torch.sum(t, dim=[2, 3]) on (B, C, H, W)
SumDims23(t, nrm) ==
    IF Len(t.shape) # 4 THEN Err("IndexError")
    ELSE Tensor(<<t.shape[1], t.shape[2]>>, nrm)

\* t[idx, label] with idx = 0 .. B-1: needs two axes and every index in range
Gather(t, label) ==
    IF Len(t.shape) < 2 THEN Err("IndexError")
    ELSE IF Len(label) > t.shape[1]
            \/ \E i \in 1 .. Len(label) : label[i] \notin 0 .. (t.shape[2] - 1)
    THEN Err("IndexError")
    ELSE Tensor(<<Len(label)>> \o SubSeq(t.shape, 3, Len(t.shape)), AnyNrm)

----------------------------------------------------------------------------
(* Discriminator.__init__ *)

\* self.in_dims, self.out_dims (python index i is position i + 1)
d_in_dims == <<3, 64, 128>>
d_out_dims == <<64, 128, 256>>

\* DiscBlock.__init__: two convolutions, batch norms only without spectral norm
DiscBlock(in_channels, out_channels, apply_d_sn) ==
    [kind |-> "DiscBlock",
     conv0 |-> Conv2d(in_channels, out_channels, 3, 1, 1),
     conv1 |-> Conv2d(out_channels, out_channels, 4, 2, 1),
     has_bn |-> ~apply_d_sn]

\* ops.SelfAttention(channels, is_generator, MODULES)
SelfAttention(channels, is_generator) ==
    [kind |-> "SelfAttention", channels |-> channels, is_generator |-> is_generator]

\* the test that puts an attention module after the block of python index `index`
DiscAttnAfter(index, attn_d_loc, apply_attn) == (index + 1) \in attn_d_loc /\ apply_attn

\* the loop building self.blocks, from python index `index` on
RECURSIVE DiscStages(_, _, _, _)
DiscStages(index, apply_d_sn, apply_attn, attn_d_loc) ==
    IF index >= Len(d_in_dims) THEN <<>>
    ELSE <<DiscBlock(d_in_dims[index + 1], d_out_dims[index + 1], apply_d_sn)>>
         \o (IF DiscAttnAfter(index, attn_d_loc, apply_attn)
             THEN <<SelfAttention(d_out_dims[index + 1], FALSE)>> ELSE <<>>)
         \o DiscStages(index + 1, apply_d_sn, apply_attn, attn_d_loc)

\* linear layer for adversarial training (self.linear1)
AdvHead(d_cond_mtd, num_classes, wnrm) ==
    IF d_cond_mtd = "MH" THEN Linear(512, 1 + num_classes, TRUE, wnrm)
    ELSE IF d_cond_mtd = "MD" THEN Linear(512, num_classes, TRUE, wnrm)
    ELSE Linear(512, 1, TRUE, wnrm)

\* double num_classes for Auxiliary Discriminative Classifier
EffClasses(aux_cls_type, num_classes) ==
    IF aux_cls_type = "ADC" THEN num_classes * 2 ELSE num_classes

\* linear and embedding layers for discriminator conditioning
ClassHeads(d_cond_mtd, num_classes, d_embed_dim, wnrm) ==
    IF d_cond_mtd = "AC"
    THEN [linear2 |-> Linear(Last(d_out_dims), num_classes, FALSE, wnrm),
          embedding |-> NoneV]
    ELSE IF d_cond_mtd = "PD"
    THEN [linear2 |-> NoneV,
          embedding |-> Embedding(num_classes, Last(d_out_dims))]
    ELSE IF d_cond_mtd \in {"2C", "D2DCE"}
    THEN [linear2 |-> Linear(Last(d_out_dims), d_embed_dim, TRUE, wnrm),
          embedding |-> Embedding(num_classes, d_embed_dim)]
    ELSE [linear2 |-> NoneV, embedding |-> NoneV]

\* TwinHeads without the configuration error of its last branch
TwinHeads_NoRaise(aux_cls_type, d_cond_mtd, num_classes, d_embed_dim, wnrm) ==
    IF aux_cls_type = "TAC" /\ d_cond_mtd = "AC"
    THEN [kind |-> "Heads",
          linear_mi |-> Linear(Last(d_out_dims), num_classes, FALSE, wnrm),
          embedding_mi |-> NoneV]
    ELSE IF aux_cls_type = "TAC" /\ d_cond_mtd \in {"2C", "D2DCE"}
    THEN [kind |-> "Heads",
          linear_mi |-> Linear(Last(d_out_dims), d_embed_dim, TRUE, wnrm),
          embedding_mi |-> Embedding(num_classes, d_embed_dim)]
    ELSE [kind |-> "Heads", linear_mi |-> NoneV, embedding_mi |-> NoneV]

\* linear and embedding layers for evolved classifier-based GAN
TwinHeads(aux_cls_type, d_cond_mtd, num_classes, d_embed_dim, wnrm) ==
    IF aux_cls_type = "TAC"
    THEN IF d_cond_mtd = "AC"
         THEN [kind |-> "Heads",
               linear_mi |-> Linear(Last(d_out_dims), num_classes, FALSE, wnrm),
               embedding_mi |-> NoneV]
         ELSE IF d_cond_mtd \in {"2C", "D2DCE"}
         THEN [kind |-> "Heads",
               linear_mi |-> Linear(Last(d_out_dims), d_embed_dim, TRUE, wnrm),
               embedding_mi |-> Embedding(num_classes, d_embed_dim)]
         ELSE Err("NotImplementedError")
    ELSE [kind |-> "Heads", linear_mi |-> NoneV, embedding_mi |-> NoneV]

\* the object Discriminator(a) builds, or the error its construction raises
NewDiscriminator(a) ==
    LET nc == EffClasses(a.aux_cls_type, a.num_classes)
        cls == ClassHeads(a.d_cond_mtd, nc, a.d_embed_dim, a.wnrm)
        twin == TwinHeads(a.aux_cls_type, a.d_cond_mtd, nc, a.d_embed_dim, a.wnrm)
    IN  IF IsErr(twin) THEN twin
        ELSE [kind |-> "Discriminator",
              apply_d_sn |-> a.apply_d_sn,
              d_cond_mtd |-> a.d_cond_mtd,
              aux_cls_type |-> a.aux_cls_type,
              normalize_d_embed |-> a.normalize_d_embed,
              num_classes |-> a.num_classes,
              blocks |-> DiscStages(0, a.apply_d_sn, a.apply_attn, a.attn_d_loc),
              conv1 |-> Conv2d(256, 512, 3, 1, 1),
              has_bn1 |-> ~a.apply_d_sn,
              linear1 |-> AdvHead(a.d_cond_mtd, a.num_classes, a.wnrm),
              linear2 |-> cls.linear2,
              embedding |-> cls.embedding,
              linear_mi |-> twin.linear_mi,
              embedding_mi |-> twin.embedding_mi]

\* the arguments of Discriminator(...) that the constructor reads; wnrm is the
\* row norm the weight initialisation leaves in the linear heads
DiscArgs(locs) ==
    [kind : {"Args"}, img_size : ImgSizes, apply_d_sn : BOOLEAN, apply_attn : BOOLEAN,
     attn_d_loc : locs, d_cond_mtd : DCondMtds, aux_cls_type : AuxClsTypes,
     d_embed_dim : EmbedDims, normalize_d_embed : BOOLEAN,
     num_classes : 1 .. MaxClasses, wnrm : WeightNorms]

DiscInit(a) ==
    /\ IsNone(d_args)
    /\ d_args' = a
    /\ disc' = NewDiscriminator(a)
    /\ UNCHANGED <<d_in, d_out, d_calls, g_vars>>

----------------------------------------------------------------------------
(* Discriminator.forward *)

\* DiscBlock.forward: conv0, (bn0), activation, conv1, (bn1), activation;
\* the batch norms and the activation keep the shape
DiscBlockForward(b, t) ==
    OnOk(ApplyConv(b.conv0, t), LAMBDA x0 : ApplyConv(b.conv1, x0))

\* ops.SelfAttention.forward: a feature map of identical shape
SelfAttentionForward(m, t) ==
    IF Len(t.shape) # 4 \/ t.shape[2] # m.channels THEN Err("RuntimeError") ELSE t

\* for index, blocklist in enumerate(self.blocks): for block in blocklist: h = block(h)
RECURSIVE RunDiscStages(_, _)
RunDiscStages(blocks, t) ==
    IF Len(blocks) = 0 THEN t
    ELSE OnOk(IF Head(blocks).kind = "DiscBlock"
              THEN DiscBlockForward(Head(blocks), t)
              ELSE SelfAttentionForward(Head(blocks), t),
              LAMBDA h : RunDiscStages(Tail(blocks), h))

\* h = sum over H, W of activation(bn1(conv1(blocks(x)))); hnrm is the row norm
\* the image and the weights give it
Pooled(D, x, hnrm) ==
    OnOk(OnOk(RunDiscStages(D.blocks, x), LAMBDA h0 : ApplyConv(D.conv1, h0)),
         LAMBDA h1 : SumDims23(h1, hnrm))

\* adv_output = torch.squeeze(self.linear1(h))
AdvOutput(D, h) == OnOk(ApplyLinear(D.linear1, h), LAMBDA a : Squeeze(a))

\* AdcLabel with the two encodings exchanged
AdcLabel_Swapped(aux_cls_type, adc_fake, label) ==
    IF aux_cls_type = "ADC"
    THEN IF adc_fake THEN [i \in 1 .. Len(label) |-> label[i] * 2]
         ELSE [i \in 1 .. Len(label) |-> label[i] * 2 + 1]
    ELSE label

\* make class labels odd (for fake) or even (for real) for ADC
AdcLabel(aux_cls_type, adc_fake, label) ==
    IF aux_cls_type = "ADC"
    THEN IF adc_fake THEN [i \in 1 .. Len(label) |-> label[i] * 2 + 1]
         ELSE [i \in 1 .. Len(label) |-> label[i] * 2]
    ELSE label

\* `for W in lin.parameters(): W = F.normalize(W, dim=1)` rebinds the loop
\* variable only: the row norm of the weight the layer then multiplies with
WeightUsed(lin, normalize_d_embed) == lin.wnrm

LinearCall(head, lin, normalize_d_embed, h) ==
    [head |-> head, wnrm |-> WeightUsed(lin, normalize_d_embed),
     stored |-> lin.wnrm, hnrm |-> h.nrm]
LabelCall(head, rows, label) == [head |-> head, rows |-> rows, label |-> label]

Fail(st, e) == [st EXCEPT !.err = e]

\* class conditioning, d_cond_mtd = "AC"
CondAC(D, st) ==
    LET h == IF D.normalize_d_embed THEN Normalize(st.h) ELSE st.h
        out == ApplyLinear(D.linear2, h)
        s1 == [st EXCEPT !.h = h,
                         !.calls = Append(@, LinearCall("linear2", D.linear2,
                                                        D.normalize_d_embed, h))]
    IN  IF IsErr(out) THEN Fail(s1, out) ELSE [s1 EXCEPT !.cls_output = out]

\* class conditioning, d_cond_mtd = "PD"
CondPD(D, st) ==
    LET e == ApplyEmbedding(D.embedding, st.label)
        s1 == [st EXCEPT !.calls = Append(@, LabelCall("embedding",
                                              D.embedding.num_embeddings, st.label))]
        m == IF IsErr(e) THEN e ELSE Broadcast(e, st.h)
        p == IF IsErr(m) THEN m ELSE SumDim1(m)
        a == IF IsErr(p) THEN p ELSE Broadcast(st.adv_output, p)
    IN  IF IsErr(a) THEN Fail(s1, a) ELSE [s1 EXCEPT !.adv_output = a]

\* class conditioning, d_cond_mtd in ["2C", "D2DCE"]
Cond2C(D, st) ==
    LET embed == ApplyLinear(D.linear2, st.h)
        s1 == [st EXCEPT !.calls = Append(@, LinearCall("linear2", D.linear2,
                                                        FALSE, st.h))]
        proxy == ApplyEmbedding(D.embedding, st.label)
        s2 == [s1 EXCEPT !.calls = Append(@, LabelCall("embedding",
                                              D.embedding.num_embeddings, st.label))]
    IN  IF IsErr(embed) THEN Fail(s1, embed)
        ELSE IF IsErr(proxy) THEN Fail(s2, proxy)
        ELSE IF D.normalize_d_embed
        THEN [s2 EXCEPT !.embed = Normalize(embed), !.proxy = Normalize(proxy)]
        ELSE [s2 EXCEPT !.embed = embed, !.proxy = proxy]

\* class conditioning, d_cond_mtd = "MD": adv_output[idx, label]
CondMD(D, st) ==
    LET a == Gather(st.adv_output, st.label)
        cols == IF Len(st.adv_output.shape) >= 2 THEN st.adv_output.shape[2] ELSE 0
        s1 == [st EXCEPT !.calls = Append(@, LabelCall("gather", cols, st.label))]
    IN  IF IsErr(a) THEN Fail(s1, a) ELSE [s1 EXCEPT !.adv_output = a]

\* class conditioning
ClassCond(D, st) ==
    IF D.d_cond_mtd = "AC" THEN CondAC(D, st)
    ELSE IF D.d_cond_mtd = "PD" THEN CondPD(D, st)
    ELSE IF D.d_cond_mtd \in {"2C", "D2DCE"} THEN Cond2C(D, st)
    ELSE IF D.d_cond_mtd = "MD" THEN CondMD(D, st)
    ELSE IF D.d_cond_mtd \in {"W/O", "MH"} THEN st
    ELSE Fail(st, Err("NotImplementedError"))

\* extra conditioning for TACGAN and ADCGAN
TwinCond(D, st) ==
    IF D.aux_cls_type # "TAC" THEN st
    ELSE IF D.d_cond_mtd = "AC"
    THEN LET out == ApplyLinear(D.linear_mi, st.h)
             s1 == [st EXCEPT !.calls = Append(@, LinearCall("linear_mi", D.linear_mi,
                                                   D.normalize_d_embed, st.h))]
         IN  IF IsErr(out) THEN Fail(s1, out) ELSE [s1 EXCEPT !.mi_cls_output = out]
    ELSE IF D.d_cond_mtd \in {"2C", "D2DCE"}
    THEN LET mi_embed == ApplyLinear(D.linear_mi, st.h)
             s1 == [st EXCEPT !.calls = Append(@, LinearCall("linear_mi", D.linear_mi,
                                                   FALSE, st.h))]
             mi_proxy == ApplyEmbedding(D.embedding_mi, st.label)
             s2 == [s1 EXCEPT !.calls = Append(@, LabelCall("embedding_mi",
                                          D.embedding_mi.num_embeddings, st.label))]
         IN  IF IsErr(mi_embed) THEN Fail(s1, mi_embed)
             ELSE IF IsErr(mi_proxy) THEN Fail(s2, mi_proxy)
             ELSE IF D.normalize_d_embed
             THEN [s2 EXCEPT !.mi_embed = Normalize(mi_embed),
                             !.mi_proxy = Normalize(mi_proxy)]
             ELSE [s2 EXCEPT !.mi_embed = mi_embed, !.mi_proxy = mi_proxy]
    ELSE st

\* the locals of forward after lines 187-207
Locals(h, adv, label) ==
    [err |-> IF IsErr(adv) THEN adv ELSE NoneV,
     h |-> h, adv_output |-> adv,
     embed |-> NoneV, proxy |-> NoneV, cls_output |-> NoneV,
     label |-> label,
     mi_embed |-> NoneV, mi_proxy |-> NoneV, mi_cls_output |-> NoneV,
     calls |-> <<>>]
PooledStart(D, h, label, adc_fake) ==
    Locals(h, OnOk(h, LAMBDA t : AdvOutput(D, t)),
           AdcLabel(D.aux_cls_type, adc_fake, label))
ForwardStart(D, x, label, adc_fake, hnrm) ==
    PooledStart(D, Pooled(D, x, hnrm), label, adc_fake)

\* the locals of forward when it returns or raises
AndThen(st, F(_)) == IF IsErr(st.err) THEN st ELSE F(st)
ForwardLocals(D, x, label, adc_fake, hnrm) ==
    AndThen(AndThen(ForwardStart(D, x, label, adc_fake, hnrm),
                    LAMBDA s : ClassCond(D, s)),
            LAMBDA s : TwinCond(D, s))

\* the dictionary forward returns
Bundle(st) ==
    [kind |-> "Bundle", h |-> st.h, adv_output |-> st.adv_output,
     embed |-> st.embed, proxy |-> st.proxy, cls_output |-> st.cls_output,
     label |-> st.label, mi_embed |-> st.mi_embed, mi_proxy |-> st.mi_proxy,
     mi_cls_output |-> st.mi_cls_output]

Labels(n, num_classes) == [1 .. n -> 0 .. (num_classes - 1)]

\* forward returns the bundle, or raises
Outcome(st) ==
    /\ d_out' = IF IsErr(st.err) THEN st.err ELSE Bundle(st)
    /\ d_calls' = st.calls

\* forward assigns no attribute of self, so every call on an object starts
\* from the state its construction left: one call per object is followed
DiscForward(B, label, adc_fake, hnrm) ==
    /\ disc.kind = "Discriminator"
    /\ IsNone(d_in)
    /\ d_in' = [kind |-> "Inputs",
                x |-> Tensor(<<B, 3, d_args.img_size, d_args.img_size>>, AnyNrm),
                label |-> label, adc_fake |-> adc_fake, hnrm |-> hnrm]
    /\ Outcome(ForwardLocals(disc, d_in'.x, label, adc_fake, hnrm))
    /\ UNCHANGED <<d_args, disc, g_vars>>

----------------------------------------------------------------------------
(* GenBlock, Generator.__init__ *)

g_in_dims == <<512, 256, 128>>
g_out_dims == <<256, 128, 64>>

\* GenBlock.__init__: deconvolution, then plain or class-conditional batch norm
GenBlock(in_channels, out_channels, g_cond_mtd, num_classes) ==
    IF g_cond_mtd = "W/O"
    THEN [kind |-> "GenBlock", g_cond_mtd |-> g_cond_mtd,
          deconv0 |-> Deconv2d(in_channels, out_channels, 4, 2, 1),
          bn0 |-> [conditional |-> FALSE, num_classes |-> 0,
                   in_features |-> out_channels]]
    ELSE IF g_cond_mtd = "cBN"
    THEN [kind |-> "GenBlock", g_cond_mtd |-> g_cond_mtd,
          deconv0 |-> Deconv2d(in_channels, out_channels, 4, 2, 1),
          bn0 |-> [conditional |-> TRUE, num_classes |-> num_classes,
                   in_features |-> out_channels]]
    ELSE Err("NotImplementedError")

\* GenAttnAfter testing the python index itself
GenAttnAfter_ZeroBased(index, attn_g_loc, apply_attn) == index \in attn_g_loc /\ apply_attn

\* the test that puts an attention module after the block of python index `index`
GenAttnAfter(index, attn_g_loc, apply_attn) == (index + 1) \in attn_g_loc /\ apply_attn

\* the loop building self.blocks, from python index `index` on
RECURSIVE GenStages(_, _, _, _, _)
GenStages(index, g_cond_mtd, num_classes, apply_attn, attn_g_loc) ==
    IF index >= Len(g_in_dims) THEN <<>>
    ELSE <<GenBlock(g_in_dims[index + 1], g_out_dims[index + 1], g_cond_mtd, num_classes)>>
         \o (IF GenAttnAfter(index, attn_g_loc, apply_attn)
             THEN <<SelfAttention(g_out_dims[index + 1], TRUE)>> ELSE <<>>)
         \o GenStages(index + 1, g_cond_mtd, num_classes, apply_attn, attn_g_loc)

\* the object Generator(a) builds, or the error its construction raises
NewGenerator(a) ==
    LET blocks == GenStages(0, a.g_cond_mtd, a.num_classes, a.apply_attn, a.attn_g_loc)
    IN  IF \E i \in 1 .. Len(blocks) : IsErr(blocks[i])
        THEN Err("NotImplementedError")
        ELSE [kind |-> "Generator",
              z_dim |-> a.z_dim,
              num_classes |-> a.num_classes,
              linear0 |-> Linear(a.z_dim, g_in_dims[1] * 4 * 4, TRUE, AnyNrm),
              blocks |-> blocks,
              conv4 |-> Conv2d(Last(g_out_dims), 3, 3, 1, 1)]

GenArgs(locs, mtds) ==
    [kind : {"Args"}, z_dim : ZDims, img_size : ImgSizes, apply_attn : BOOLEAN,
     attn_g_loc : locs, g_cond_mtd : mtds, num_classes : 1 .. MaxClasses]

GenInit(a) ==
    /\ IsNone(g_args)
    /\ g_args' = a
    /\ gen' = NewGenerator(a)
    /\ UNCHANGED <<g_in, g_out, d_vars>>

----------------------------------------------------------------------------
(* GenBlock.forward, Generator.forward *)

\* act.view(-1, C, 4, 4): the batch axis is inferred from the element count
View(t, C) ==
    LET numel == t.shape[1] * t.shape[2]
    IN  IF numel % (C * 4 * 4) # 0 THEN Err("RuntimeError")
        ELSE Tensor(<<numel \div (C * 4 * 4), C, 4, 4>>, AnyNrm)

\* self.bn0(x) / self.bn0(x, label): same shape; the conditional form looks the
\* label of every sample up in per-class tables
ApplyBn(bn, t, label) ==
    IF t.shape[2] # bn.in_features THEN Err("RuntimeError")
    ELSE IF ~bn.conditional THEN t
    ELSE IF \E i \in 1 .. Len(label) : label[i] \notin 0 .. (bn.num_classes - 1)
    THEN Err("IndexError")
    ELSE IF Len(label) # t.shape[1] /\ Len(label) # 1 /\ t.shape[1] # 1
    THEN Err("RuntimeError")
    ELSE t

\* GenBlock.forward: deconv0, bn0, activation
GenBlockForward(b, t, label) ==
    OnOk(ApplyConv(b.deconv0, t),
         LAMBDA x : IF b.g_cond_mtd \in {"W/O", "cBN"} THEN ApplyBn(b.bn0, x, label)
                    ELSE Err("NotImplementedError"))

\* the loop over self.blocks
RECURSIVE RunGenStages(_, _, _)
RunGenStages(blocks, t, label) ==
    IF Len(blocks) = 0 THEN t
    ELSE OnOk(IF Head(blocks).kind = "SelfAttention"
              THEN SelfAttentionForward(Head(blocks), t)
              ELSE GenBlockForward(Head(blocks), t, label),
              LAMBDA act : RunGenStages(Tail(blocks), act, label))

\* what Generator.forward returns: tanh(conv4(blocks(view(linear0(z)))))
GenForwardResult(G, z, label) ==
    OnOk(OnOk(OnOk(ApplyLinear(G.linear0, z), LAMBDA a0 : View(a0, g_in_dims[1])),
              LAMBDA a1 : RunGenStages(G.blocks, a1, label)),
         LAMBDA a2 : ApplyConv(G.conv4, a2))

GenForward(B, label) ==
    /\ gen.kind = "Generator"
    /\ IsNone(g_in)
    /\ LET z == Tensor(<<B, gen.z_dim>>, AnyNrm)
       IN  /\ g_in' = [kind |-> "Inputs", z |-> z, label |-> label]
           /\ g_out' = GenForwardResult(gen, z, label)
    /\ UNCHANGED <<g_args, gen, d_vars>>

----------------------------------------------------------------------------
Init ==
    /\ d_args = NoneV /\ disc = NoneV /\ d_in = NoneV /\ d_out = NoneV
    /\ d_calls = <<>>
    /\ g_args = NoneV /\ gen = NoneV /\ g_in = NoneV /\ g_out = NoneV

NextDisc ==
    \/ /\ IsNone(d_args)
       /\ \E a \in DiscArgs(AttnLocsFew) : DiscInit(a)
    \/ /\ disc.kind = "Discriminator" /\ IsNone(d_in)
       /\ \E B \in 1 .. MaxBatch, adc_fake \in BOOLEAN, hnrm \in HNorms :
            \E label \in Labels(B, disc.num_classes) :
               DiscForward(B, label, adc_fake, hnrm)

SpecDisc == Init /\ [][NextDisc]_vars

NextGen ==
    \/ /\ IsNone(g_args)
       /\ \E a \in GenArgs(AttnLocsAll, GCondMtds) : GenInit(a)
    \/ /\ gen.kind = "Generator" /\ IsNone(g_in)
       /\ \E B \in 1 .. MaxBatch :
            \E label \in Labels(B, gen.num_classes) : GenForward(B, label)

SpecGen == Init /\ [][NextGen]_vars

\* construction of both networks, over every attention configuration
AttnDiscArgs ==
    {a \in DiscArgs(AttnLocsAll) :
        /\ a.img_size = 32 /\ a.num_classes = MaxClasses /\ a.wnrm = 1
        /\ a.d_cond_mtd \in {"W/O", "AC"} /\ a.aux_cls_type = "None"
        /\ ~a.normalize_d_embed}
AttnGenArgs ==
    {a \in GenArgs(AttnLocsAll, {"W/O", "cBN"}) :
        a.img_size = 32 /\ a.num_classes = MaxClasses}

NextAttn ==
    \/ /\ IsNone(d_args)
       /\ \E a \in AttnDiscArgs : DiscInit(a)
    \/ /\ IsNone(g_args)
       /\ \E a \in AttnGenArgs : GenInit(a)

SpecAttn == Init /\ [][NextAttn]_vars

----------------------------------------------------------------------------
(* Properties *)

Supported == {"W/O", "AC", "PD", "2C", "D2DCE", "MD", "MH"}
TacModes == {"AC", "2C", "D2DCE"}
Constructed == disc.kind = "Discriminator"
Called == ~IsNone(d_in)
Returned == d_out.kind = "Bundle"
BatchOf == d_in.x.shape[1]

\* C1: every d_cond_mtd outside the seven supported values makes construction
\* fail, so that forward of a constructed Discriminator never raises
\* NotImplementedError.
C1_UnsupportedFailsAtConstruction ==
    /\ (~IsNone(d_args) /\ d_args.d_cond_mtd \notin Supported) => IsErr(disc)
    /\ ~(IsErr(d_out) /\ d_out.type = "NotImplementedError")

\* the heads of the table of section 4.5, every class head of width 512
TableAdvOut(mtd, nc) == IF mtd = "MH" THEN 1 + nc ELSE IF mtd = "MD" THEN nc ELSE 1
IsLinear(m, in_features, out_features, bias) ==
    /\ m.kind = "Linear" /\ m.in_features = in_features
    /\ m.out_features = out_features /\ m.bias = bias
IsEmbedding(m, rows, dim) ==
    m.kind = "Embedding" /\ m.num_embeddings = rows /\ m.embedding_dim = dim
TableClassHeads(mtd, lin, emb, nc, ed) ==
    IF mtd = "AC" THEN IsLinear(lin, 512, nc, FALSE) /\ IsNone(emb)
    ELSE IF mtd = "PD" THEN IsNone(lin) /\ IsEmbedding(emb, nc, 512)
    ELSE IF mtd \in {"2C", "D2DCE"}
    THEN IsLinear(lin, 512, ed, TRUE) /\ IsEmbedding(emb, nc, ed)
    ELSE IsNone(lin) /\ IsNone(emb)

\* C2: a successfully constructed Discriminator of a supported mode has exactly
\* the heads of the table: the adversarial head 512 -> 1 / 1+num_classes /
\* num_classes, the class head of the mode taking the 512-wide h, and the twin
\* heads iff aux_cls_type is TAC, of the same architecture.
C2_HeadsOfTheTable ==
    (Constructed /\ disc.d_cond_mtd \in Supported) =>
        LET nc == IF disc.aux_cls_type = "ADC" THEN 2 * disc.num_classes
                  ELSE disc.num_classes
        IN  /\ IsLinear(disc.linear1, 512,
                        TableAdvOut(disc.d_cond_mtd, disc.num_classes), TRUE)
            /\ TableClassHeads(disc.d_cond_mtd, disc.linear2, disc.embedding,
                               nc, d_args.d_embed_dim)
            /\ IF disc.aux_cls_type = "TAC"
               THEN TableClassHeads(disc.d_cond_mtd, disc.linear_mi,
                                    disc.embedding_mi, nc, d_args.d_embed_dim)
               ELSE IsNone(disc.linear_mi) /\ IsNone(disc.embedding_mi)

\* C3: with aux_cls_type = TAC, construction raises NotImplementedError for
\* every d_cond_mtd outside {AC, 2C, D2DCE} and succeeds for AC, 2C and D2DCE.
C3_TacConstruction ==
    (~IsNone(d_args) /\ d_args.aux_cls_type = "TAC") =>
        IF d_args.d_cond_mtd \in TacModes
        THEN Constructed /\ ~IsNone(disc.linear_mi)
        ELSE IsErr(disc) /\ disc.type = "NotImplementedError"

C3_Witness ==
    /\ ~IsNone(d_args) /\ d_args.aux_cls_type = "TAC" /\ d_args.d_cond_mtd = "PD"
    /\ IsErr(disc)

\* what the claim says a label becomes
IsRecoded(out, in, aux_cls_type, adc_fake) ==
    /\ Len(out) = Len(in)
    /\ \A i \in 1 .. Len(in) :
          IF aux_cls_type = "ADC"
          THEN out[i] \div 2 = in[i] /\ out[i] % 2 = (IF adc_fake THEN 1 ELSE 0)
          ELSE out[i] = in[i]
LabelCalls == {i \in 1 .. Len(d_calls) : d_calls[i].head \in {"embedding", "embedding_mi", "gather"}}

\* C4: under ADC the label l becomes 2l (adc_fake false) or 2l+1 (adc_fake
\* true); every head that consumes the label gets the rewritten one, and the
\* returned bundle holds it; without ADC the label is returned unchanged.
C4_AdcLabelRecoding ==
    Called =>
        /\ \A i \in LabelCalls :
              IsRecoded(d_calls[i].label, d_in.label, disc.aux_cls_type, d_in.adc_fake)
        /\ Returned =>
              IsRecoded(d_out.label, d_in.label, disc.aux_cls_type, d_in.adc_fake)

C4_Witness ==
    /\ Called /\ Returned /\ disc.aux_cls_type = "ADC" /\ d_in.adc_fake
    /\ disc.d_cond_mtd = "MD" /\ LabelCalls # {}
    /\ Len(d_in.label) = 2 /\ d_out.label = <<1, 1>>

\* C5: the returned h has shape (B, 512) and the returned adversarial output
\* shape (B,), or (B, 1+num_classes) under MH, for every batch size B >= 1.
C5_OutputShapes ==
    (Called /\ Returned /\ disc.d_cond_mtd \in Supported) =>
        /\ d_out.h.shape = <<BatchOf, 512>>
        /\ d_out.adv_output.shape =
              (IF disc.d_cond_mtd = "MH" THEN <<BatchOf, 1 + disc.num_classes>>
               ELSE <<BatchOf>>)

\* C6: Generator.forward returns an image of shape (B, 3, img_size, img_size)
\* for every configured img_size.
C6_ImageShape ==
    (~IsNone(g_in) /\ gen.kind = "Generator") =>
        /\ g_out.kind = "Tensor"
        /\ g_out.shape = <<g_in.z.shape[1], 3, g_args.img_size, g_args.img_size>>

\* position of the k-th block (k = 1, 2, 3) in a stage sequence
IsAttn(m) == m.kind = "SelfAttention"
BlockPos(blocks, k) ==
    CHOOSE p \in 1 .. Len(blocks) :
        /\ ~IsAttn(blocks[p])
        /\ Cardinality({q \in 1 .. p : ~IsAttn(blocks[q])}) = k
AttnFollows(blocks, k) ==
    LET p == BlockPos(blocks, k)
    IN  p < Len(blocks) /\ IsAttn(blocks[p + 1])
NumAttn(blocks) == Cardinality({q \in 1 .. Len(blocks) : IsAttn(blocks[q])})
NumBlocks(blocks) == Cardinality({q \in 1 .. Len(blocks) : ~IsAttn(blocks[q])})
\* attention follows exactly the blocks whose stage number (from 1) is in S
AttnExactlyAt(blocks, S) ==
    /\ NumBlocks(blocks) = 3
    /\ \A k \in 1 .. 3 : AttnFollows(blocks, k) <=> k \in S
    /\ NumAttn(blocks) = Cardinality(S \cap (1 .. 3))

\* C7 as stated: an attention module follows a block iff the block's stage
\* index is in the configured attention-location set (Generator and
\* Discriminator), whatever apply_attn is.
C7_AttnAtConfiguredStages ==
    /\ gen.kind = "Generator" => AttnExactlyAt(gen.blocks, g_args.attn_g_loc)
    /\ Constructed => AttnExactlyAt(disc.blocks, d_args.attn_d_loc)

\* C7 amended: an attention module follows the block of stage number k
\* (counted from 1) iff apply_attn is set and k is in the attention-location
\* set; without apply_attn there is no attention module at all.
C7_AttnAtConfiguredStagesIfApplied ==
    /\ gen.kind = "Generator" =>
          AttnExactlyAt(gen.blocks,
                        IF g_args.apply_attn THEN g_args.attn_g_loc ELSE {})
    /\ Constructed =>
          AttnExactlyAt(disc.blocks,
                        IF d_args.apply_attn THEN d_args.attn_d_loc ELSE {})

C7_Witness ==
    /\ gen.kind = "Generator" /\ g_args.apply_attn /\ g_args.attn_g_loc = {2}
    /\ Len(gen.blocks) = 4 /\ IsAttn(gen.blocks[3])
    /\ Constructed /\ d_args.apply_attn /\ d_args.attn_d_loc = {1, 3}

\* C8: under AC with normalize_d_embed the class logits are computed from the
\* normalised weight and the normalised h, and the stored weight is unchanged;
\* with the flag off both are the raw values.
C8_AcNormalizedOperands ==
    (Called /\ disc.d_cond_mtd = "AC") =>
        \A i \in 1 .. Len(d_calls) :
            d_calls[i].head = "linear2" =>
                IF disc.normalize_d_embed
                THEN /\ d_calls[i].wnrm = NormalizeNrm(disc.linear2.wnrm)
                     /\ d_calls[i].hnrm = NormalizeNrm(d_in.hnrm)
                ELSE /\ d_calls[i].wnrm = disc.linear2.wnrm
                     /\ d_calls[i].hnrm = d_in.hnrm

\* a field of the returned bundle that is not None
Has(f) == Returned /\ ~IsNone(d_out[f])

\* C9: after a forward call cls_output is set iff the mode is AC, embed and
\* proxy iff it is 2C or D2DCE, mi_cls_output iff TAC with AC, mi_embed and
\* mi_proxy iff TAC with 2C or D2DCE.
C9_OptionalFields ==
    (Called /\ BatchOf >= 2 /\ disc.d_cond_mtd \in Supported) =>
        /\ Has("cls_output") <=> disc.d_cond_mtd = "AC"
        /\ Has("embed") <=> disc.d_cond_mtd \in {"2C", "D2DCE"}
        /\ Has("proxy") <=> disc.d_cond_mtd \in {"2C", "D2DCE"}
        /\ Has("mi_cls_output") <=>
              (disc.aux_cls_type = "TAC" /\ disc.d_cond_mtd = "AC")
        /\ Has("mi_embed") <=>
              (disc.aux_cls_type = "TAC" /\ disc.d_cond_mtd \in {"2C", "D2DCE"})
        /\ Has("mi_proxy") <=>
              (disc.aux_cls_type = "TAC" /\ disc.d_cond_mtd \in {"2C", "D2DCE"})

\* C10: every label a head consumes at forward time is a valid index of the
\* structure it indexes (for batches and class counts of at least 2, where
\* the squeeze drops no axis).
C10_ConsumedLabelInRange ==
    (Called /\ BatchOf >= 2 /\ disc.num_classes >= 2) =>
        \A i \in LabelCalls :
            \A j \in 1 .. Len(d_calls[i].label) :
                d_calls[i].label[j] \in 0 .. (d_calls[i].rows - 1)

====
